---- MODULE Spec2Model ----
(***************************************************************************)
(* A model of hermes.typeo (src/libs/hermes/hermes.typeo/hermes/typeo/     *)
(* __init__.py): the derivation of an argparse parser from a callable's    *)
(* signature and docstring (make_parser and its helpers), the dictionary   *)
(* parsing action (_DictParsingAction) and the wrapper typeo() builds.     *)
(*                                                                         *)
(* Python strings are sequences of one-character strings, so that split,   *)
(* strip, startswith and int() are computed and not assumed.  Python       *)
(* values are records tagged with their type (t).  An exception a function *)
(* raises is the err field of the record it returns.                       *)
(***************************************************************************)
EXTENDS Integers, Sequences, FiniteSets, TLC

VARIABLES
    pc,         \* where the program is: "start", "factory", "wrapped", "failed",
                \* or "help" / "dict" / "done" in the specifications of one function
    f,          \* the callable given to typeo: [name, doc, params]
    deco,       \* the arguments typeo was called with: [shape, prog]
    parser,     \* the argparse parser make_parser built (NoParser before)
    wrapErr,    \* the exception wrapping raised ("none" when it raised none)
    calls,      \* how many times f has been called (its side-effect counter)
    reads,      \* how many times the process argument vector has been read
    last,       \* the last invocation of the wrapper: its input and its outcome
    pinned,     \* the first parsing invocation: its argument vector and outcome
    helpCall,   \* one call of _parse_help: [args, arg_name, result]
    dictCall    \* one call of _DictParsingAction.__call__: [type, values, ns, exc]

vars == <<pc, f, deco, parser, wrapErr, calls, reads, last, pinned, helpCall, dictCall>>

(***************************************************************************)
(* Bounds of the model.                                                    *)
(***************************************************************************)
MaxLines == 4          \* lines of an arguments section given to _parse_help
MaxTokens == 2         \* tokens collected for one option
MaxInvocations == 3    \* invocations of one wrapper
MaxUnion == 3          \* members of a Union annotation

(***************************************************************************)
(* Python strings.                                                         *)
(***************************************************************************)
Spaces(n) == [i \in 1..n |-> " "]

\* where sep first occurs in s (0 when it does not): str.find, 1-based
Find(s, sep) ==
    LET hits == {i \in 1..(Len(s) - Len(sep) + 1) : SubSeq(s, i, i + Len(sep) - 1) = sep}
    IN IF hits = {} THEN 0 ELSE CHOOSE i \in hits : \A j \in hits : i <= j

\* s.split(sep): the parts of s between the occurrences of sep, all of them
RECURSIVE Split(_, _)
Split(s, sep) ==
    LET i == Find(s, sep)
    IN IF i = 0 THEN <<s>>
       ELSE <<SubSeq(s, 1, i - 1)>> \o Split(SubSeq(s, i + Len(sep), Len(s)), sep)

\* sep.join(parts)
RECURSIVE Join(_, _)
Join(parts, sep) ==
    IF parts = <<>> THEN <<>>
    ELSE IF Len(parts) = 1 THEN parts[1]
    ELSE parts[1] \o sep \o Join(Tail(parts), sep)

StartsWith(s, prefix) ==
    Len(s) >= Len(prefix) /\ SubSeq(s, 1, Len(prefix)) = prefix

IsSpace(c) == c \in {" ", "\n"}

RECURSIVE LStrip(_)
LStrip(s) == IF s # <<>> /\ IsSpace(s[1]) THEN LStrip(Tail(s)) ELSE s

RECURSIVE RStrip(_)
RStrip(s) ==
    IF s # <<>> /\ IsSpace(s[Len(s)]) THEN RStrip(SubSeq(s, 1, Len(s) - 1)) ELSE s

Strip(s) == RStrip(LStrip(s))

\* s.replace(old, new) for single characters
ReplaceChar(s, old, new) == [i \in 1..Len(s) |-> IF s[i] = old THEN new ELSE s[i]]

(***************************************************************************)
(* _parse_help: the help string of one argument, from the Args section.    *)
(***************************************************************************)
\* the loop over the lines, from line i on, with the loop's two variables
RECURSIVE ParseHelpLoop(_, _, _, _, _)
ParseHelpLoop(lines, i, arg_name, doc_str, started) ==
    IF i > Len(lines) THEN doc_str
    ELSE IF lines[i] = Spaces(8) \o arg_name \o <<":">>
         THEN ParseHelpLoop(lines, i + 1, arg_name, doc_str, TRUE)
    ELSE IF ~StartsWith(lines[i], Spaces(12)) /\ started
         THEN doc_str
    ELSE IF started
         THEN ParseHelpLoop(lines, i + 1, arg_name,
                            doc_str \o <<" ">> \o Strip(lines[i]), started)
    ELSE ParseHelpLoop(lines, i + 1, arg_name, doc_str, started)

_parse_help(args, arg_name) ==
    ParseHelpLoop(Split(args, <<"\n">>), 1, arg_name, <<>>, FALSE)

(***************************************************************************)
(* The arguments sections _parse_help is tried on.                         *)
(***************************************************************************)
HelpArgName == <<"x">>

HelpLines ==
    { Spaces(8) \o <<"x", ":">>,            \* the marker line of x
      Spaces(8) \o <<"y", ":">>,            \* the marker line of another argument
      Spaces(12) \o <<"s">>,                \* description lines
      Spaces(12) \o <<"t", " ", "u", " ">>,
      Spaces(16) \o <<"v">>,
      Spaces(11) \o <<"w">>,                \* one space short
      Spaces(12),                           \* blank, indented
      <<>> }                                \* empty

RECURSIVE SeqsUpTo(_, _)
SeqsUpTo(S, n) ==
    IF n = 0 THEN {<<>>}
    ELSE LET shorter == SeqsUpTo(S, n - 1)
         IN shorter \cup {Append(q, x) : q \in shorter, x \in S}

HelpTexts == {Join(ls, <<"\n">>) : ls \in SeqsUpTo(HelpLines, MaxLines)}

NoHelpCall == [args |-> <<>>, arg_name |-> <<>>, result |-> <<>>]

(***************************************************************************)
(* Annotations.  A class (int, str, bool, NoneType) has no __origin__; a   *)
(* subscripted generic (List[int], Union[int, None]) has an __origin__ and *)
(* __args__.  Ellipsis is the variadic marker of Tuple[T, ...].            *)
(***************************************************************************)
Class(n) == [k |-> "class", name |-> n]
Generic(o, as) == [k |-> "generic", origin |-> o, args |-> as]
EllipsisT == [k |-> "Ellipsis"]
NoType == [k |-> "None"]

IntT == Class("int")
StrT == Class("str")
BoolT == Class("bool")
NoneT == Class("NoneType")

(***************************************************************************)
(* Python values.                                                          *)
(***************************************************************************)
PyNone == [t |-> "None"]
PyEmpty == [t |-> "_empty"]            \* inspect._empty: no default
PyBool(b) == [t |-> "bool", v |-> b]
PyInt(n) == [t |-> "int", v |-> n]
PyStr(s) == [t |-> "str", v |-> s]
PyList(q) == [t |-> "list", v |-> q]
PyDict(d) == [t |-> "dict", v |-> d]

\* bool(v), as `not param.default` uses it
Truthy(v) ==
    CASE v.t = "None" -> FALSE
      [] v.t = "bool" -> v.v
      [] v.t = "int" -> v.v # 0
      [] v.t = "str" -> v.v # <<>>
      [] v.t = "list" -> v.v # <<>>
      [] v.t = "dict" -> DOMAIN v.v # {}
      [] OTHER -> TRUE

Ok(v) == [err |-> "none", val |-> v]
Raise(e) == [err |-> e, val |-> PyNone]

Digits == {"0", "1", "2", "3", "4", "5", "6", "7", "8", "9"}

DigitVal(c) ==
    CASE c = "0" -> 0 [] c = "1" -> 1 [] c = "2" -> 2 [] c = "3" -> 3 [] c = "4" -> 4
      [] c = "5" -> 5 [] c = "6" -> 6 [] c = "7" -> 7 [] c = "8" -> 8 [] c = "9" -> 9

RECURSIVE Decimal(_)
Decimal(s) ==
    IF s = <<>> THEN 0
    ELSE 10 * Decimal(SubSeq(s, 1, Len(s) - 1)) + DigitVal(s[Len(s)])

\* type_(token): what calling the type on a string gives.  int() takes decimal
\* digits (surrounding blanks allowed); str() takes anything; a subscripted
\* generic of typing cannot be instantiated.
Coerce(type_, s) ==
    CASE type_ = IntT ->
            LET d == Strip(s)
            IN IF d # <<>> /\ \A i \in 1..Len(d) : d[i] \in Digits
               THEN Ok(PyInt(Decimal(d))) ELSE Raise("ValueError")
      [] type_ = StrT -> Ok(PyStr(s))
      [] type_ = BoolT -> Ok(PyBool(s # <<>>))
      [] OTHER -> Raise("TypeError")

\* d[k] = v on a dict
SetItem(d, k, v) == [x \in (DOMAIN d) \cup {k} |-> IF x = k THEN v ELSE d[x]]

EmptyDict == [x \in {} |-> PyNone]

(***************************************************************************)
(* _DictParsingAction.__call__: self is the action ([dest, _type]),        *)
(* namespace the attributes parsed so far, values the tokens collected for *)
(* the option.  The result is the namespace after the call, or the         *)
(* exception the call raised (the namespace is then as it was).            *)
(***************************************************************************)
\* a variant that passes over the values it cannot split in two
RECURSIVE DictLoopSkipping(_, _, _, _)
DictLoopSkipping(self, values, i, dict_value) ==
    IF i > Len(values) THEN Ok(PyDict(dict_value))
    ELSE LET kv == Split(values[i], <<"=">>)
         IN IF Len(kv) # 2 THEN DictLoopSkipping(self, values, i + 1, dict_value)
            ELSE LET c == Coerce(self._type, kv[2])
                 IN IF c.err # "none" THEN Raise(c.err)
                    ELSE DictLoopSkipping(self, values, i + 1,
                                          SetItem(dict_value, kv[1], c.val))

\* the loop over the values, from value i on
RECURSIVE DictLoop(_, _, _, _)
DictLoop(self, values, i, dict_value) ==
    IF i > Len(values) THEN Ok(PyDict(dict_value))
    ELSE LET kv == Split(values[i], <<"=">>)
         IN IF Len(kv) # 2 THEN Raise("ValueError")      \* k, v = ... cannot unpack
            ELSE LET c == Coerce(self._type, kv[2])
                 IN IF c.err # "none" THEN Raise(c.err)
                    ELSE DictLoop(self, values, i + 1, SetItem(dict_value, kv[1], c.val))

DictAction_call(self, namespace, values) ==
    LET r == IF Len(values) = 1 /\ Find(values[1], <<"=">>) = 0
             THEN Coerce(self._type, values[1])
             ELSE DictLoop(self, values, 1, EmptyDict)
    IN IF r.err # "none" THEN [err |-> r.err, ns |-> namespace]
       ELSE [err |-> "none", ns |-> SetItem(namespace, self.dest, r.val)]

(***************************************************************************)
(* The token lists _DictParsingAction is tried on.                         *)
(***************************************************************************)
DictTokens ==
    { <<"a", "=", "1">>, <<"b", "=", "2">>, <<"a", "=", "2">>,   \* key=value
      <<"a", "=", "1", "=", "2">>, <<"a", "=", "=">>,           \* more than one =
      <<"=", "1">>,                                              \* no key
      <<"a", "=">>, <<"a", "=", "b">>,                           \* no value, no int
      <<"5">>, <<"a">> }                                         \* no separator

DictDest == <<"d">>
DictNamespace0 == SetItem(EmptyDict, DictDest, PyNone)
NoDictCall == [type |-> NoType, values |-> <<>>, ns |-> EmptyDict, exc |-> "none"]

\* what the variables of the wrapper hold before anything happened
NoOutcome == [kind |-> "none", code |-> 0, exc |-> "none", value |-> PyNone]
NoCallable == [name |-> <<>>, doc |-> PyNone, params |-> <<>>]
NoDeco == [shape |-> "none", prog |-> PyNone]
NoParser == [prog |-> <<>>, description |-> <<>>, actions |-> <<>>]
NoInvocation ==
    [n |-> 0, args |-> <<>>, kwargs |-> EmptyDict, argv |-> <<>>, parsed |-> FALSE,
     called |-> 0, callArgs |-> <<>>, callKwargs |-> EmptyDict,
     callsBefore |-> 0, readsBefore |-> 0, outcome |-> NoOutcome]
NoPin == [on |-> FALSE, set |-> FALSE, between |-> FALSE, argv |-> <<>>, outcome |-> NoOutcome]

(***************************************************************************)
(* Resolution of an annotation (make_parser's helpers).  A result is       *)
(* [err, val]: err is the exception raised ("none": none), and for a       *)
(* TypeError sub says whether its message has the word "Subscripted".      *)
(***************************************************************************)
TypeOk(v) == [err |-> "none", sub |-> FALSE, val |-> v]
TypeRaise(e, s) == [err |-> e, sub |-> s, val |-> NoType]

\* isinstance(None, cls): a subscripted generic cannot be used in the check
IsInstanceOfNone(cls) ==
    IF cls.k = "generic" THEN TypeRaise("TypeError", TRUE)
    ELSE IF cls.k = "class" THEN TypeOk(cls = NoneT)
    ELSE TypeRaise("TypeError", FALSE)

\* _get_origin_and_type: (origin, None) of a generic, (None, annotation) otherwise
_get_origin_and_type(annotation) ==
    IF annotation.k = "generic"
    THEN [origin |-> annotation.origin, type_ |-> NoType]
    ELSE [origin |-> "None", type_ |-> annotation]

\* _enforce_array_like: the second member of the Union, checked against the first
_enforce_array_like(union, type_) ==
    LET annotation == union.args[2]
    IN IF annotation.k # "generic"
       THEN TypeRaise("TypeError", FALSE)              \* no __origin__
       ELSE IF annotation.origin \in {"list", "Sequence"}
            THEN IF annotation.args[1] = type_ THEN TypeOk(annotation)
                 ELSE TypeRaise("AssertionError", FALSE)
       ELSE IF annotation.origin = "dict"
            THEN IF annotation.args[2] = type_ THEN TypeOk(annotation)
                 ELSE TypeRaise("AssertionError", FALSE)
       ELSE IF annotation.origin = "tuple"
            THEN IF \A i \in 1..Len(annotation.args) : annotation.args[i] = type_
                 THEN TypeOk(annotation)
                 ELSE TypeRaise("AssertionError", FALSE)
       ELSE TypeRaise("TypeError", FALSE)               \* unknown origin

\* _parse_union: the annotation to parse a Union-annotated parameter with
_parse_union(param) ==
    LET annotation == param.annotation
        type_ == annotation.args[1]
        inst == IsInstanceOfNone(annotation.args[2])
    IN IF inst.err = "none"
       THEN IF inst.val
            THEN IF param.default # PyNone
                 THEN TypeRaise("ValueError", FALSE)
                 ELSE TypeOk(type_)
            ELSE _enforce_array_like(annotation, type_)
       ELSE IF inst.sub
            THEN _enforce_array_like(annotation, type_)
            ELSE inst

\* the keyword arguments make_parser collects for add_argument
NoKwargs ==
    [nargs |-> "unset", action |-> "unset", type |-> NoType, required |-> FALSE,
     hasDefault |-> FALSE, default |-> PyNone, help |-> <<>>]

\* a variant that asks for several tokens (nargs="+") of a mapping alone
_parse_array_like_one_token(annotation, origin, kwargs) ==
    IF origin \in {"list", "tuple", "dict", "Sequence"}
    THEN IF origin = "dict"
         THEN IF annotation.args[1] # StrT
              THEN [err |-> "AssertionError", val |-> NoType, kwargs |-> kwargs]
              ELSE [err |-> "none", val |-> annotation.args[2],
                    kwargs |-> [kwargs EXCEPT !.nargs = "+",
                                              !.action = "_DictParsingAction"]]
         ELSE IF origin = "tuple" /\ \E i \in 2..Len(annotation.args) :
                                        /\ annotation.args[i] # EllipsisT
                                        /\ annotation.args[i] # annotation.args[1]
              THEN [err |-> "AssertionError", val |-> NoType, kwargs |-> kwargs]
              ELSE [err |-> "none", val |-> annotation.args[1], kwargs |-> kwargs]
    ELSE IF origin # "None"
         THEN [err |-> "TypeError", val |-> NoType, kwargs |-> kwargs]
         ELSE [err |-> "none", val |-> NoType, kwargs |-> kwargs]

\* _parse_array_like: [err, val, kwargs]; val is NoType when it returns None
_parse_array_like(annotation, origin, kwargs) ==
    IF origin \in {"list", "tuple", "dict", "Sequence"}
    THEN IF origin = "dict"
         THEN IF annotation.args[1] # StrT
              THEN [err |-> "AssertionError", val |-> NoType, kwargs |-> kwargs]
              ELSE [err |-> "none", val |-> annotation.args[2],
                    kwargs |-> [kwargs EXCEPT !.nargs = "+",
                                              !.action = "_DictParsingAction"]]
         ELSE IF origin = "tuple" /\ \E i \in 2..Len(annotation.args) :
                                        /\ annotation.args[i] # EllipsisT
                                        /\ annotation.args[i] # annotation.args[1]
              THEN [err |-> "AssertionError", val |-> NoType, kwargs |-> kwargs]
              ELSE [err |-> "none", val |-> annotation.args[1],
                    kwargs |-> [kwargs EXCEPT !.nargs = "+"]]
    ELSE IF origin # "None"
         THEN [err |-> "TypeError", val |-> NoType, kwargs |-> kwargs]
         ELSE [err |-> "none", val |-> NoType, kwargs |-> kwargs]

(***************************************************************************)
(* argparse's add_argument, as make_parser uses it: the action it makes of *)
(* the keyword arguments.  store_true and store_false take neither nargs   *)
(* nor type; an action without default= keeps its class's own default.     *)
(***************************************************************************)
OptionOf(name) == <<"-", "-">> \o ReplaceChar(name, "_", "-")
DestOf(option) == ReplaceChar(SubSeq(option, 3, Len(option)), "-", "_")
HelpOption == <<"-", "h">>
HelpLongOption == <<"-", "-", "h", "e", "l", "p">>

\* the default a store_true / store_false action has of its own
StoreConstDefault(action) == PyBool(action = "store_false")

add_argument(option, kwargs) ==
    IF option = HelpLongOption
    THEN [err |-> "ArgumentError", action |-> <<>>]      \* conflicting option string
    ELSE IF kwargs.action \in {"store_true", "store_false"}
    THEN IF kwargs.nargs # "unset" \/ kwargs.type # NoType
         THEN [err |-> "TypeError", action |-> <<>>]     \* unexpected keyword argument
         ELSE [err |-> "none",
               action |-> [option |-> option, dest |-> DestOf(option),
                           kind |-> kwargs.action, nargs |-> "0",
                           const |-> PyBool(kwargs.action = "store_true"),
                           type |-> NoType, _type |-> NoType, required |-> FALSE,
                           default |-> IF kwargs.hasDefault THEN kwargs.default
                                       ELSE StoreConstDefault(kwargs.action),
                           help |-> kwargs.help]]
    ELSE [err |-> "none",
          action |-> [option |-> option, dest |-> DestOf(option),
                      kind |-> IF kwargs.action = "unset" THEN "store" ELSE kwargs.action,
                      nargs |-> IF kwargs.nargs = "unset" THEN "None" ELSE kwargs.nargs,
                      const |-> PyNone,
                      \* _DictParsingAction.__init__ keeps the type and hands str on
                      type |-> IF kwargs.action = "_DictParsingAction" THEN StrT
                               ELSE kwargs.type,
                      _type |-> IF kwargs.action = "_DictParsingAction" THEN kwargs.type
                                ELSE NoType,
                      required |-> kwargs.required,
                      default |-> kwargs.default,
                      help |-> kwargs.help]]

(***************************************************************************)
(* make_parser.                                                            *)
(***************************************************************************)
ArgsHeader == <<"A", "r", "g", "s", ":", "\n">>
ReturnsHeader == <<"R", "e", "t", "u", "r", "n", "s", ":", "\n">>

\* the description and the arguments section of the docstring: [doc, args]
SplitDoc(doc) ==
    IF doc = PyNone THEN [doc |-> <<>>, args |-> <<>>]
    ELSE LET parts == Split(doc.v, ArgsHeader)
         IN IF Len(parts) # 2 THEN [doc |-> doc.v, args |-> <<>>]
            ELSE LET rest == Split(parts[2], ReturnsHeader)
                 IN [doc |-> parts[1],
                     args |-> IF Len(rest) = 2 THEN rest[1] ELSE parts[2]]

\* the action of a Boolean parameter: store_<the opposite of the default>
BoolAction(param) ==
    IF param.default = PyEmpty THEN "store_true"
    ELSE IF ~Truthy(param.default) THEN "store_true" ELSE "store_false"

\* one turn of the loop over the parameters: [err, action]
ParamArgument(param, args) ==
    LET ot0 == _get_origin_and_type(param.annotation)
        u == IF ot0.origin = "Union" THEN _parse_union(param)
             ELSE TypeOk(param.annotation)
    IN IF u.err # "none" THEN [err |-> u.err, action |-> <<>>]
       ELSE LET ot == _get_origin_and_type(u.val)
                al == _parse_array_like(u.val, ot.origin, NoKwargs)
            IN IF al.err # "none" THEN [err |-> al.err, action |-> <<>>]
               ELSE LET type_ == IF al.val # NoType THEN al.val ELSE ot.type_
                        k1 == [al.kwargs EXCEPT !.help = _parse_help(args, param.name)]
                        k2 == IF type_ = BoolT
                              THEN [k1 EXCEPT !.action = BoolAction(param)]
                              ELSE IF param.default = PyEmpty
                                   THEN [k1 EXCEPT !.type = type_, !.required = TRUE]
                                   ELSE [k1 EXCEPT !.type = type_, !.hasDefault = TRUE,
                                                   !.default = param.default]
                    IN add_argument(OptionOf(param.name), k2)

RECURSIVE AddArguments(_, _, _, _)
AddArguments(params, i, args, actions) ==
    IF i > Len(params) THEN [err |-> "none", actions |-> actions]
    ELSE LET a == ParamArgument(params[i], args)
         IN IF a.err # "none" THEN [err |-> a.err, actions |-> <<>>]
            ELSE AddArguments(params, i + 1, args, Append(actions, a.action))

\* make_parser(f, prog): [err, parser]
make_parser(fn, prog) ==
    LET d == SplitDoc(fn.doc)
        built == AddArguments(fn.params, 1, d.args, <<>>)
    IN IF built.err # "none" THEN [err |-> built.err, parser |-> NoParser]
       ELSE [err |-> "none",
             parser |-> [prog |-> IF Truthy(prog) THEN prog.v ELSE fn.name,
                         description |-> RStrip(d.doc),
                         actions |-> built.actions]]

(***************************************************************************)
(* argparse's parse_args, as the wrapper uses it.  The argument vector is  *)
(* a sequence of option groups, [option, values]: an option string and the *)
(* tokens that follow it up to the next option, which is how argparse      *)
(* hands them to an action.  The result is [kind, code, exc, ns]: kind     *)
(* "ok" with the namespace, "SystemExit" with the exit code (parser.error  *)
(* exits with 2, help with 0), or "raise" with an exception an action let  *)
(* through (argparse catches ArgumentError only).                          *)
(***************************************************************************)
Parsed(ns) == [kind |-> "ok", code |-> 0, exc |-> "none", ns |-> ns]
Exits(code) == [kind |-> "SystemExit", code |-> code, exc |-> "none", ns |-> EmptyDict]
Raises(e) == [kind |-> "raise", code |-> 0, exc |-> e, ns |-> EmptyDict]

\* each action's default set on the namespace, for the attributes it lacks
RECURSIVE SetDefaults(_, _, _)
SetDefaults(p, i, ns) ==
    IF i > Len(p.actions) THEN ns
    ELSE SetDefaults(p, i + 1,
                     IF p.actions[i].dest \in DOMAIN ns THEN ns
                     ELSE SetItem(ns, p.actions[i].dest, p.actions[i].default))

\* a variant in which the parser keeps the namespace of its last parse
RetainedNamespace(p) ==
    SetDefaults(p, 1, IF last.parsed /\ last.called = 1 THEN last.callKwargs
                      ELSE EmptyDict)

\* the namespace parse_args starts from: a new one, with the defaults
NewNamespace(p) == SetDefaults(p, 1, EmptyDict)

HasAction(p, option) == \E i \in 1..Len(p.actions) : p.actions[i].option = option

ActionOf(p, option) ==
    p.actions[CHOOSE i \in 1..Len(p.actions) : p.actions[i].option = option]

NoAction == [dest |-> <<>>, nargs |-> "0"]

\* _get_values: every token converted with the action's type
RECURSIVE ConvertAll(_, _, _, _)
ConvertAll(type_, values, i, acc) ==
    IF i > Len(values) THEN [err |-> "none", vals |-> acc]
    ELSE LET c == Coerce(type_, values[i])
         IN IF c.err # "none" THEN [err |-> c.err, vals |-> <<>>]
            ELSE ConvertAll(type_, values, i + 1, Append(acc, c.val))

\* one option group consumed: [stop, result, ns, seen, extras]
ConsumeGroup(p, g, ns, seen, extras) ==
    LET a == IF HasAction(p, g.option) THEN ActionOf(p, g.option) ELSE NoAction
        go(ns2, seen2, extras2) ==
            [stop |-> FALSE, result |-> Parsed(ns2), ns |-> ns2, seen |-> seen2,
             extras |-> extras2]
        halt(r) == [stop |-> TRUE, result |-> r, ns |-> ns, seen |-> seen,
                    extras |-> extras]
    IN IF g.option \in {HelpOption, HelpLongOption} THEN halt(Exits(0))
       ELSE IF ~HasAction(p, g.option) THEN go(ns, seen, TRUE)            \* unrecognized
       ELSE IF a.nargs = "0"
            THEN go(SetItem(ns, a.dest, a.const), seen \cup {a.dest},
                    extras \/ Len(g.values) > 0)
       ELSE IF Len(g.values) = 0 THEN halt(Exits(2))        \* expected an argument
       ELSE IF a.nargs = "None"
            THEN LET c == Coerce(a.type, g.values[1])
                 IN IF c.err # "none" THEN halt(Exits(2))   \* invalid value
                    ELSE go(SetItem(ns, a.dest, c.val), seen \cup {a.dest},
                            extras \/ Len(g.values) > 1)
       ELSE LET cs == ConvertAll(a.type, g.values, 1, <<>>)
            IN IF cs.err # "none" THEN halt(Exits(2))
               ELSE IF a.kind = "_DictParsingAction"
                    THEN LET r == DictAction_call(a, ns,
                                      [i \in 1..Len(cs.vals) |-> cs.vals[i].v])
                         IN IF r.err # "none" THEN halt(Raises(r.err))
                            ELSE go(r.ns, seen \cup {a.dest}, extras)
                    ELSE go(SetItem(ns, a.dest, PyList(cs.vals)), seen \cup {a.dest},
                            extras)

\* nothing consumed yet, the namespace being ns
NothingConsumed(ns) ==
    [stop |-> FALSE, result |-> Parsed(ns), ns |-> ns, seen |-> {}, extras |-> FALSE]

\* the groups from the i-th on consumed in turn, c being what the ones before
\* left; a group that exits or raises ends the loop
RECURSIVE ConsumeGroups(_, _, _, _)
ConsumeGroups(p, argv, i, c) ==
    IF i > Len(argv) \/ c.stop THEN c
    ELSE ConsumeGroups(p, argv, i + 1,
                       ConsumeGroup(p, argv[i], c.ns, c.seen, c.extras))

\* the defaults that are strings, converted with the type, for the options not seen
RECURSIVE ConvertDefaults(_, _, _, _)
ConvertDefaults(p, i, ns, seen) ==
    IF i > Len(p.actions) THEN [err |-> "none", ns |-> ns]
    ELSE LET a == p.actions[i]
         IN IF a.dest \in seen \/ a.default.t # "str" \/ a.type = NoType
            THEN ConvertDefaults(p, i + 1, ns, seen)
            ELSE LET c == Coerce(a.type, a.default.v)
                 IN IF c.err # "none" THEN [err |-> c.err, ns |-> ns]
                    ELSE ConvertDefaults(p, i + 1, SetItem(ns, a.dest, c.val), seen)

\* the end of parse_args, c being what the groups left
CheckConsumed(p, c) ==
    IF c.stop THEN c.result
    ELSE LET d == ConvertDefaults(p, 1, c.ns, c.seen)
         IN IF d.err # "none" THEN Exits(2)
            ELSE IF \E i \in 1..Len(p.actions) :
                       p.actions[i].required /\ p.actions[i].dest \notin c.seen
                 THEN Exits(2)                       \* a required option is missing
            ELSE IF c.extras THEN Exits(2)           \* unrecognized arguments
            ELSE Parsed(d.ns)

parse_args(p, argv) ==
    CheckConsumed(p, ConsumeGroups(p, argv, 1, NothingConsumed(NewNamespace(p))))

(***************************************************************************)
(* The wrapper typeo returns.                                              *)
(***************************************************************************)
\* what f returns for the arguments it is called with
CallF(fn, args, kwargs) ==
    [t |-> "result", of |-> fn.name, args |-> args, kwargs |-> kwargs]

Returns(v) == [kind |-> "return", code |-> 0, exc |-> "none", value |-> v]

\* a variant that parses whenever no positional argument is given
ParsesArgvNoPositional(args, kwargs) == Len(args) = 0

\* whether the wrapper parses the argument vector: len(args) == len(kwargs) == 0
ParsesArgv(args, kwargs) == Len(args) = 0 /\ DOMAIN kwargs = {}

\* a variant that goes on to call f whatever the parse did
CallsAfterParseAlways(r) == TRUE

\* whether the wrapper gets to call f once the parse ended as r: parse_args
\* returned, it neither exited nor raised
CallsAfterParse(r) == r.kind = "ok"

\* one invocation wrapper(*args, **kwargs) with the process's argument vector
\* argv: the record kept in last
\* the invocation that parsed argv, the parse having ended as r
Parsing(fn, args, kwargs, argv, r) ==
    IF CallsAfterParse(r)
    THEN [n |-> last.n + 1, args |-> args, kwargs |-> kwargs, argv |-> argv, parsed |-> TRUE,
          called |-> 1, callArgs |-> args, callKwargs |-> r.ns,
          callsBefore |-> calls, readsBefore |-> reads,
          outcome |-> Returns(CallF(fn, args, r.ns))]
    ELSE [n |-> last.n + 1, args |-> args, kwargs |-> kwargs, argv |-> argv, parsed |-> TRUE,
          called |-> 0, callArgs |-> <<>>, callKwargs |-> EmptyDict,
          callsBefore |-> calls, readsBefore |-> reads,
          outcome |-> [kind |-> r.kind, code |-> r.code, exc |-> r.exc,
                       value |-> PyNone]]

Invocation(fn, p, args, kwargs, argv) ==
    IF ParsesArgv(args, kwargs)
    THEN Parsing(fn, args, kwargs, argv, parse_args(p, argv))
    ELSE [n |-> last.n + 1, args |-> args, kwargs |-> kwargs, argv |-> <<>>, parsed |-> FALSE,
          called |-> 1, callArgs |-> args, callKwargs |-> kwargs,
          callsBefore |-> calls, readsBefore |-> reads,
          outcome |-> Returns(CallF(fn, args, kwargs))]

(***************************************************************************)
(* The callables the model wraps.                                          *)
(***************************************************************************)
List(T) == Generic("list", <<T>>)
Sequence(T) == Generic("Sequence", <<T>>)
Dict(K, V) == Generic("dict", <<K, V>>)
Set(T) == Generic("set", <<T>>)
Tuple(Ts) == Generic("tuple", Ts)
Union(Ts) == Generic("Union", Ts)
Optional(T) == Union(<<T, NoneT>>)

Param(n, a, d) == [name |-> n, annotation |-> a, default |-> d]

\* the docstring of the example in typeo's own docstring, shortened:
\* a description, then Args: with a: and other_number:, then Returns:
AdderDoc ==
    <<"A", "d", "d", "s", "\n", "\n">>
    \o Spaces(4) \o ArgsHeader
    \o Spaces(8) \o <<"a", ":", "\n">>
    \o Spaces(12) \o <<"T", "\n">>
    \o Spaces(8) \o <<"o", "t", "h", "e", "r", "_", "n", "u", "m", "b", "e", "r", ":", "\n">>
    \o Spaces(12) \o <<"U", "\n">>
    \o Spaces(12) \o <<"V", "\n">>
    \o Spaces(4) \o ReturnsHeader
    \o Spaces(8) \o <<"W", "\n">>
    \o Spaces(4)

OtherNumber == <<"o", "t", "h", "e", "r", "_", "n", "u", "m", "b", "e", "r">>

Adder ==
    [name |-> <<"f">>, doc |-> PyStr(AdderDoc),
     params |-> <<Param(<<"a">>, IntT, PyEmpty), Param(OtherNumber, IntT, PyInt(1))>>]

OneParam(n, a, d) == [name |-> <<"g">>, doc |-> PyNone, params |-> <<Param(n, a, d)>>]

FlagDefaults == {PyEmpty, PyBool(TRUE), PyBool(FALSE)}

Callables ==
    {Adder}
    \cup {OneParam(<<"v">>, BoolT, d) : d \in FlagDefaults}
    \cup {OneParam(<<"v">>, Optional(BoolT), PyNone),
          OneParam(<<"x">>, Union(<<IntT, List(IntT)>>), PyEmpty),
          OneParam(<<"d">>, Dict(StrT, IntT), PyEmpty),
          OneParam(<<"o">>, Optional(IntT), PyNone)}

RepeatCallables ==
    {OneParam(<<"d">>, Dict(StrT, IntT), PyNone),
     OneParam(<<"o">>, Optional(IntT), PyNone)}

\* the annotations wrapping is tried on
Scalars == {IntT, StrT, BoolT}
Containers ==
    {List(IntT), List(StrT), List(BoolT), Sequence(IntT),
     Dict(StrT, IntT), Dict(StrT, StrT), Dict(IntT, IntT),
     Tuple(<<IntT, IntT>>), Tuple(<<IntT, EllipsisT>>), Tuple(<<IntT, StrT>>),
     Set(IntT)}
Nested ==
    {List(List(IntT)), Tuple(<<List(IntT), EllipsisT>>), Dict(StrT, List(IntT)),
     Sequence(Dict(StrT, IntT))}
Members == Scalars \cup {NoneT} \cup Containers \cup Nested

Distinct(q) == \A i, j \in 1..Len(q) : i # j => q[i] # q[j]

Unions ==
    {Union(q) : q \in {m \in SeqsUpTo(Members, MaxUnion) : Len(m) >= 2 /\ Distinct(m)}}

WrapDefaults == {PyEmpty, PyNone, PyInt(0)}

WrapCallables ==
    {OneParam(<<"x">>, a, d) : a \in (Members \ {NoneT}) \cup Unions, d \in WrapDefaults}

ProgName == <<"p">>

(***************************************************************************)
(* The actions of the wrapper.                                             *)
(***************************************************************************)
\* the program's state after make_parser ended as r
Wrapped(r) ==
    /\ pc' = IF r.err = "none" THEN "wrapped" ELSE "failed"
    /\ parser' = r.parser
    /\ wrapErr' = r.err

\* typeo(*args, **kwargs): typeo(f) and typeo(f, prog=...) build the parser and
\* the wrapper at once; typeo() and typeo(prog=...) return wrapperwrapper
typeo ==
    /\ pc = "start"
    /\ \E withF \in BOOLEAN, prog \in {PyNone, PyStr(ProgName)} :
          IF withF
          THEN /\ deco' = [shape |-> "bare", prog |-> prog]
               /\ Wrapped(make_parser(f, PyNone))
          ELSE /\ deco' = [shape |-> "configured", prog |-> prog]
               /\ pc' = "factory"
               /\ UNCHANGED <<parser, wrapErr>>
    /\ UNCHANGED <<f, calls, reads, last, pinned, helpCall, dictCall>>

\* wrapperwrapper(f): the parser built with typeo's arguments
wrapperwrapper ==
    /\ pc = "factory"
    /\ Wrapped(make_parser(f, deco.prog))
    /\ UNCHANGED <<f, deco, calls, reads, last, pinned, helpCall, dictCall>>

\* the inputs of an invocation
ExplicitArgs == {<<>>, <<PyInt(1)>>}
ExplicitKwargs == {EmptyDict, SetItem(EmptyDict, <<"a">>, PyInt(1))}

ArgvTokens == {<<"5">>, <<"a", "=", "1">>}
UnknownOption == <<"-", "-", "z">>
Group(o, vs) == [option |-> o, values |-> vs]

\* the argument vectors with one option, and a few with two
Argvs(p) ==
    LET options == {p.actions[i].option : i \in 1..Len(p.actions)}
        groups == {Group(o, vs) : o \in options, vs \in SeqsUpTo(ArgvTokens, MaxTokens)}
        first == p.actions[1].option
    IN {<<>>, <<Group(HelpOption, <<>>)>>, <<Group(UnknownOption, <<>>)>>}
       \cup {<<g>> : g \in groups}
       \cup {<<Group(first, << <<"5">>, <<"7">> >>)>>,
             <<Group(first, << <<"5">> >>), Group(first, << <<"a", "=", "1">> >>)>>,
             <<Group(UnknownOption, <<>>), Group(HelpOption, <<>>)>>,
             <<Group(first, << <<"5">> >>), Group(UnknownOption, <<>>)>>}

\* wrapper(*args, **kwargs), the process's argument vector being argv; the
\* vector is varied for the invocations without arguments
wrapper ==
    /\ pc = "wrapped"
    /\ last.n < MaxInvocations
    /\ \E args \in ExplicitArgs, kwargs \in ExplicitKwargs :
       \E argv \in IF args = <<>> /\ DOMAIN kwargs = {} THEN Argvs(parser) ELSE {<<>>} :
          \E inv \in {Invocation(f, parser, args, kwargs, argv)} :
             /\ last' = inv
             /\ calls' = calls + inv.called
             /\ reads' = IF inv.parsed THEN reads + 1 ELSE reads
             /\ pinned' = IF pinned.on /\ ~pinned.set /\ inv.parsed
                          THEN [pinned EXCEPT !.set = TRUE, !.argv = argv,
                                              !.outcome = inv.outcome]
                          ELSE IF pinned.set /\ inv.parsed /\ argv # pinned.argv
                          THEN [pinned EXCEPT !.between = TRUE]
                          ELSE pinned
    /\ UNCHANGED <<pc, f, deco, parser, wrapErr, helpCall, dictCall>>

(***************************************************************************)
(* States in which the parts of the model a specification leaves out rest. *)
(***************************************************************************)

WrapperAtRest ==
    /\ f = NoCallable /\ deco = NoDeco /\ parser = NoParser /\ wrapErr = "none"
    /\ calls = 0 /\ reads = 0 /\ last = NoInvocation /\ pinned = NoPin

wrapperVars == <<f, deco, parser, wrapErr, calls, reads, last, pinned>>

(***************************************************************************)
(* Spec: a callable is wrapped with typeo, in either shape, and the        *)
(* wrapper is invoked, with explicit arguments or with none.               *)
(***************************************************************************)
FunctionsAtRest == helpCall = NoHelpCall /\ dictCall = NoDictCall

InitWith(callables, pin) ==
    /\ pc = "start"
    /\ f \in callables
    /\ deco = NoDeco /\ parser = NoParser /\ wrapErr = "none"
    /\ calls = 0 /\ reads = 0 /\ last = NoInvocation
    /\ pinned = [NoPin EXCEPT !.on = pin]
    /\ FunctionsAtRest

Init == InitWith(Callables, FALSE)

Next == typeo \/ wrapperwrapper \/ wrapper

Spec == Init /\ [][Next]_vars

(***************************************************************************)
(* SpecRepeat: the same, the first parsing invocation being kept to        *)
(* compare the later ones with.                                            *)
(***************************************************************************)
InitRepeat == InitWith(RepeatCallables, TRUE)

SpecRepeat == InitRepeat /\ [][Next]_vars

(***************************************************************************)
(* SpecWrap: wrapping alone, over the annotations of one parameter.        *)
(***************************************************************************)
InitWrap == InitWith(WrapCallables, FALSE)

NextWrap == typeo \/ wrapperwrapper

SpecWrap == InitWrap /\ [][NextWrap]_vars

(***************************************************************************)
(* SpecHelp: _parse_help called once on an arguments section.              *)
(***************************************************************************)
InitHelp ==
    /\ pc = "help"
    /\ helpCall \in {[args |-> a, arg_name |-> HelpArgName, result |-> <<>>] : a \in HelpTexts}
    /\ dictCall = NoDictCall
    /\ WrapperAtRest

ParseHelp ==
    /\ pc = "help"
    /\ helpCall' = [helpCall EXCEPT !.result = _parse_help(helpCall.args, helpCall.arg_name)]
    /\ pc' = "help_done"
    /\ UNCHANGED <<dictCall, wrapperVars>>

NextHelp == ParseHelp

SpecHelp == InitHelp /\ [][NextHelp]_vars

(***************************************************************************)
(* SpecDict: _DictParsingAction.__call__ called once on the tokens argparse *)
(* collected for the option (nargs="+": at least one).                     *)
(***************************************************************************)
InitDict ==
    /\ pc = "dict"
    /\ dictCall \in {[type |-> t, values |-> vs, ns |-> DictNamespace0, exc |-> "none"] :
                        t \in {IntT, StrT}, vs \in SeqsUpTo(DictTokens, MaxTokens) \ {<<>>}}
    /\ helpCall = NoHelpCall
    /\ WrapperAtRest

DictParse ==
    /\ pc = "dict"
    /\ LET r == DictAction_call([dest |-> DictDest, _type |-> dictCall.type],
                                 dictCall.ns, dictCall.values)
       IN dictCall' = [dictCall EXCEPT !.ns = r.ns, !.exc = r.err]
    /\ pc' = "dict_done"
    /\ UNCHANGED <<helpCall, wrapperVars>>

NextDict == DictParse

SpecDict == InitDict /\ [][NextDict]_vars

(***************************************************************************)
(* C8.  The help text _parse_help extracts is the stripped contents of the *)
(* maximal run of lines indented by 12 or more spaces right after the      *)
(* marker line, joined by one space between consecutive lines, with no     *)
(* separator before the first or after the last; the first line not so     *)
(* indented ends the block; it is empty when the marker never occurs.      *)
(***************************************************************************)
HelpMarker(arg_name) == Spaces(8) \o arg_name \o <<":">>

\* the block the claim describes: the lines after the first marker line, up to
\* the first one that is not indented by 12 spaces
ClaimedHelpBlock(lines, arg_name) ==
    LET marks == {i \in 1..Len(lines) : lines[i] = HelpMarker(arg_name)}
    IN IF marks = {} THEN <<>>
       ELSE LET m == CHOOSE i \in marks : \A j \in marks : i <= j
                ends == {e \in m..Len(lines) :
                            \A i \in (m + 1)..e : StartsWith(lines[i], Spaces(12))}
                e == CHOOSE x \in ends : \A y \in ends : y <= x
            IN [i \in 1..(e - m) |-> Strip(lines[m + i])]

C8_HelpIsStrippedLinesJoined ==
    pc = "help_done" =>
        helpCall.result =
            Join(ClaimedHelpBlock(Split(helpCall.args, <<"\n">>), helpCall.arg_name), <<" ">>)

(***************************************************************************)
(* C4.  On the mapping path of _DictParsingAction (more than one token, or *)
(* one token with the separator) every token is split at the first "="     *)
(* only: the key is the text before it, which must not be empty, the value *)
(* all the text after it, coerced with the value type; the result maps     *)
(* each key to its coerced value, the last token of a key winning.         *)
(***************************************************************************)
OnMappingPath(values) == ~(Len(values) = 1 /\ Find(values[1], <<"=">>) = 0)

FirstSplit(tok) ==
    LET i == Find(tok, <<"=">>)
    IN <<SubSeq(tok, 1, i - 1), SubSeq(tok, i + 1, Len(tok))>>

RECURSIVE ClaimedMapping(_, _, _, _)
ClaimedMapping(type_, values, i, acc) ==
    IF i > Len(values) THEN acc
    ELSE ClaimedMapping(type_, values, i + 1,
             SetItem(acc, FirstSplit(values[i])[1], Coerce(type_, FirstSplit(values[i])[2]).val))

ClaimedWellFormed(type_, values) ==
    \A i \in 1..Len(values) :
        /\ Find(values[i], <<"=">>) # 0
        /\ FirstSplit(values[i])[1] # <<>>
        /\ Coerce(type_, FirstSplit(values[i])[2]).err = "none"

C4_TokensSplitAtFirstSeparator ==
    (pc = "dict_done" /\ OnMappingPath(dictCall.values)) =>
        IF ClaimedWellFormed(dictCall.type, dictCall.values)
        THEN /\ dictCall.exc = "none"
             /\ dictCall.ns[DictDest] =
                    PyDict(ClaimedMapping(dictCall.type, dictCall.values, 1, EmptyDict))
        ELSE dictCall.exc # "none"

(***************************************************************************)
(* C5.  A token without "=" given to a mapping-typed flag: when it is the  *)
(* only token it is coerced with the value type and stored as a scalar,    *)
(* not a mapping; when it is one of two or more tokens the parse fails and *)
(* nothing is stored for the flag.                                         *)
(***************************************************************************)
HasBareToken(values) == \E i \in 1..Len(values) : Find(values[i], <<"=">>) = 0

C5_BareTokenScalarOrError ==
    (pc = "dict_done" /\ HasBareToken(dictCall.values)) =>
        IF Len(dictCall.values) = 1
        THEN LET c == Coerce(dictCall.type, dictCall.values[1])
             IN IF c.err = "none"
                THEN /\ dictCall.exc = "none"
                     /\ dictCall.ns[DictDest] = c.val
                     /\ dictCall.ns[DictDest].t # "dict"
                ELSE dictCall.exc = c.err /\ dictCall.ns = DictNamespace0
        ELSE dictCall.exc # "none" /\ dictCall.ns = DictNamespace0

\* a single bare token stored as an integer, and a bare token among two refused
C5_Witness ==
    /\ pc = "dict_done"
    /\ dictCall.type = IntT
    /\ dictCall.values = << <<"5">> >>
    /\ dictCall.exc = "none"
    /\ dictCall.ns[DictDest] = PyInt(5)

(***************************************************************************)
(* C1.  Whichever way the wrapper was built, an invocation reads (parses)  *)
(* the argument vector exactly when it has no positional and no keyword    *)
(* argument; with any explicit argument f is called once, with exactly     *)
(* those arguments, and nothing is parsed; and whenever f is called the    *)
(* wrapper returns what f returned.                                        *)
(***************************************************************************)
NoArguments(inv) == Len(inv.args) = 0 /\ DOMAIN inv.kwargs = {}

C1_DispatchRule ==
    last.n > 0 =>
        /\ last.parsed <=> NoArguments(last)
        /\ reads = last.readsBefore + (IF NoArguments(last) THEN 1 ELSE 0)
        /\ ~NoArguments(last) =>
              /\ last.called = 1
              /\ calls = last.callsBefore + 1
              /\ last.callArgs = last.args
              /\ last.callKwargs = last.kwargs
        /\ last.called = 1 =>
              last.outcome = Returns(CallF(f, last.callArgs, last.callKwargs))

\* the configured wrapper called with a keyword argument alone
C1_Witness ==
    /\ deco.shape = "configured"
    /\ last.n > 0
    /\ last.args = <<>> /\ DOMAIN last.kwargs # {}
    /\ ~last.parsed /\ last.called = 1 /\ reads = 0

(***************************************************************************)
(* C2.  When the parse of a zero-argument invocation fails (a required     *)
(* flag is missing, a key=value token is malformed, a token cannot be      *)
(* coerced), the process ends with a nonzero exit status and f is not      *)
(* called in that invocation: its call counter stays as it was.            *)
(***************************************************************************)
\* the exit status of the process whose main program is the call f(): that of
\* SystemExit, 1 for an exception nothing catches, 0 when f returns
ExitStatus(outcome) ==
    CASE outcome.kind = "SystemExit" -> outcome.code
      [] outcome.kind = "raise" -> 1
      [] OTHER -> 0

AsksHelp(argv) == \E i \in 1..Len(argv) : argv[i].option \in {HelpOption, HelpLongOption}

Supplied(argv, option) == \E i \in 1..Len(argv) : argv[i].option = option

MissingRequired(p, argv) ==
    \E i \in 1..Len(p.actions) :
        p.actions[i].required /\ ~Supplied(argv, p.actions[i].option)

\* a mapping-typed option given two or more tokens, one of them without "="
MalformedEntry(p, argv) ==
    \E i \in 1..Len(argv) :
        /\ HasAction(p, argv[i].option)
        /\ ActionOf(p, argv[i].option).kind = "_DictParsingAction"
        /\ Len(argv[i].values) >= 2
        /\ HasBareToken(argv[i].values)

\* an option of a type given a token the type refuses
Uncoercible(p, argv) ==
    \E i \in 1..Len(argv) :
        /\ HasAction(p, argv[i].option)
        /\ ActionOf(p, argv[i].option).kind = "store"
        /\ \E j \in 1..Len(argv[i].values) :
              Coerce(ActionOf(p, argv[i].option).type, argv[i].values[j]).err # "none"

ParseFails(p, argv) ==
    ~AsksHelp(argv)
    /\ (MissingRequired(p, argv) \/ MalformedEntry(p, argv) \/ Uncoercible(p, argv))

C2_ParseErrorNeverCallsF ==
    (last.n > 0 /\ last.parsed) =>
        /\ ParseFails(parser, last.argv) => last.outcome.kind \in {"SystemExit", "raise"}
        /\ last.outcome.kind \in {"SystemExit", "raise"} =>
              /\ last.called = 0
              /\ calls = last.callsBefore
              /\ (ExitStatus(last.outcome) = 0 => AsksHelp(last.argv))

\* the required flag of Dict[str, int] given two tokens, one without "="
C2_Witness ==
    /\ last.n > 0 /\ last.parsed
    /\ MalformedEntry(parser, last.argv)
    /\ last.outcome.kind = "raise"
    /\ last.called = 0 /\ calls = last.callsBefore

(***************************************************************************)
(* C3.  A parameter whose type resolves to bool is a flag: never required, *)
(* taking no value token.  Without a default, its absence gives false and  *)
(* its presence true; with a default d (None on an Optional[bool] too),    *)
(* its absence gives d and its presence the negation of d.                 *)
(***************************************************************************)
IsBoolParam(param) == param.annotation \in {BoolT, Optional(BoolT)}

C3_FlagFollowsDefault ==
    (pc = "wrapped" /\ Len(f.params) = 1 /\ IsBoolParam(f.params[1])) =>
        LET param == f.params[1]
            d == param.default
            present == Supplied(last.argv, OptionOf(param.name))
        IN /\ ~parser.actions[1].required
           /\ parser.actions[1].nargs = "0"
           /\ (last.parsed /\ last.called = 1) =>
                 last.callKwargs[param.name] =
                     IF present
                     THEN PyBool(IF d = PyEmpty THEN TRUE ELSE ~Truthy(d))
                     ELSE IF d = PyEmpty THEN PyBool(FALSE) ELSE d

(***************************************************************************)
(* C7.  A parameter annotated Union[T, List[T]] given n >= 1 tokens gets   *)
(* the list of the n coerced tokens, in their order; one token gives a     *)
(* list of one element, never a scalar.                                    *)
(***************************************************************************)
ScalarOrList == OneParam(<<"x">>, Union(<<IntT, List(IntT)>>), PyEmpty)

CoercedList(type_, values) == [i \in 1..Len(values) |-> Coerce(type_, values[i]).val]

AllCoerce(type_, values) ==
    \A i \in 1..Len(values) : Coerce(type_, values[i]).err = "none"

C7_UnionWithListGivesList ==
    (f = ScalarOrList /\ last.n > 0 /\ last.parsed) =>
        /\ \A vs \in SeqsUpTo(ArgvTokens, MaxTokens) :
              (vs # <<>> /\ AllCoerce(IntT, vs)
                  /\ last.argv = <<Group(OptionOf(<<"x">>), vs)>>) =>
                 /\ last.called = 1
                 /\ last.callKwargs[<<"x">>] = PyList(CoercedList(IntT, vs))
        /\ last.called = 1 => last.callKwargs[<<"x">>].t = "list"

\* --x 5 gives [5]
C7_Witness ==
    /\ f = ScalarOrList
    /\ last.parsed /\ last.called = 1
    /\ last.argv = <<Group(OptionOf(<<"x">>), << <<"5">> >>)>>
    /\ last.callKwargs[<<"x">>] = PyList(<<PyInt(5)>>)

(***************************************************************************)
(* C10.  Whatever invocations were made, the parser is the one built when  *)
(* f was wrapped, and a parse depends on its argument vector alone: an     *)
(* invocation that parses the argument vector an earlier one parsed has    *)
(* the outcome the earlier one had, whatever was parsed in between.        *)
(***************************************************************************)
ParserBuilt == make_parser(f, IF deco.shape = "bare" THEN PyNone ELSE deco.prog).parser

IsUnion(a) == a.k = "generic" /\ a.origin = "Union"

ContainerOf(c, T) ==
    /\ c.k = "generic"
    /\ \/ c.origin \in {"list", "Sequence"} /\ c.args = <<T>>
       \/ c.origin = "dict" /\ c.args = <<StrT, T>>
       \/ /\ c.origin = "tuple"
          /\ \A i \in 1..Len(c.args) : c.args[i] = T \/ (i > 1 /\ c.args[i] = EllipsisT)

AcceptedUnion(param) ==
    LET m == param.annotation.args
    IN /\ Len(m) = 2
       /\ \/ m[2] = NoneT /\ param.default = PyNone
          \/ ContainerOf(m[2], m[1])

C6_UnionAcceptedForms ==
    (pc \in {"wrapped", "failed"} /\ Len(f.params) = 1 /\ IsUnion(f.params[1].annotation)) =>
        (pc = "wrapped" <=> AcceptedUnion(f.params[1]))

(***************************************************************************)
(* C9.  A parameter annotated with a nested container (a list, tuple or    *)
(* mapping from str whose element or value type is itself a container)     *)
(* makes wrapping fail: no parser and no wrapper come of it.               *)
(***************************************************************************)
IsContainer(a) ==
    a.k = "generic" /\ a.origin \in {"list", "Sequence", "tuple", "dict", "set"}

IsNestedContainer(a) ==
    /\ a.k = "generic"
    /\ \/ a.origin \in {"list", "Sequence", "tuple"} /\ IsContainer(a.args[1])
       \/ a.origin = "dict" /\ a.args[1] = StrT /\ IsContainer(a.args[2])

C9_NestedContainerRefused ==
    (Len(f.params) = 1 /\ IsNestedContainer(f.params[1].annotation)) =>
        /\ pc # "wrapped"
        /\ parser = NoParser
====
